---- MODULE Spec2Model ----
(***************************************************************************)
(* A model of workerpool.py: Worker, WorkerPool, Watchman, SummoningPool   *)
(* and the pool / summoning_pool context managers.                        *)
(*                                                                         *)
(* Threads of the model: the caller (runs the constructor, the body of the *)
(* with-block and the context manager's exit), the pool's own thread       *)
(* (WorkerPool is a Thread whose run() sets the run event), the Watchman   *)
(* thread of a SummoningPool, and one thread per Worker.  A step reads or  *)
(* writes one shared object (an Event, a Queue, the pool list); two pairs  *)
(* of statements are one step each: wk.start() with self.pool.append(wk),  *)
(* and self.pool.pop() with worker.banish().                               *)
(***************************************************************************)
EXTENDS Integers, Sequences, FiniteSets, TLC

\* ---- bounds of the model ------------------------------------------------
MaxItems == 2
MaxThreads == 3
MaxCount == 2
MaxPre == 2
MaxOps == 3
MaxRaceOps == 2

\* ---- parameter ranges ---------------------------------------------------
Kinds == {"plain", "summoning"}
WCounts == 0..2
MaxWs == {2}
Rates == {1, 2}
Ratios == {1}
ItemKinds == {"ret", "raise", "bad"}
ExitHows == {"normal", "return", "raise"}

VARIABLES
    kind, wcount, maxw, rate, ratio,   \* constructor arguments
    run, stop, wstop,                  \* WorkerPool._run, WorkerPool._stop, Watchman.stop
    inbox, outbox, errbox, unfinished, \* the three queues and inbox.unfinished_tasks
    nItems, kindOf,                    \* items put so far, and what each one is
    pool, wk, nCreated,                \* WorkerPool.pool, the Worker threads
    nOps,                              \* calls the caller has made on the pool
    cpc, ccount, ccn, cjoin, cexile, ci, cban, \* the caller's position and locals
    ppc,                               \* the pool's own thread
    wpc, wsize, wpsize, wcn, wban, wj, \* the Watchman's position and locals
    pool0,                             \* history: the pool when the caller called banish
    exileCalls, exitHow,               \* history: the context manager's exit
    pmark,                             \* history: items put before the last pause
    heldAtStop                         \* history: items in workers' hands when stop was set

vars == << kind, wcount, maxw, rate, ratio, run, stop, wstop,
           inbox, outbox, errbox, unfinished, nItems, kindOf,
           pool, wk, nCreated, nOps, cpc, ccount, ccn, cjoin, cexile, ci, cban, ppc,
           wpc, wsize, wpsize, wcn, wban, wj, pool0,
           exileCalls, exitHow, pmark, heldAtStop >>

params == << kind, wcount, maxw, rate, ratio >>
queues == << inbox, outbox, errbox, unfinished >>
items == << nItems, kindOf >>
clocals == << ccount, ccn, cjoin, cexile, ci, cban >>
wlocals == << wsize, wpsize, wcn, wban, wj >>
hist == << pool0, exileCalls, exitHow, pmark, heldAtStop >>

\* ---- helpers ------------------------------------------------------------
Min(a, b) == IF a < b THEN a ELSE b
Max(a, b) == IF a > b THEN a ELSE b
Range(s) == {s[k] : k \in DOMAIN s}
Count(s, x) == Cardinality({k \in DOMAIN s : s[k] = x})
Front(s) == SubSeq(s, 1, Len(s) - 1)
Last(s) == s[Len(s)]
Threads == 1..nCreated

\* the work of item i: the operation x*x applied to x = i
Result(i) == i * i
\* the exception object item i's operation raises
Failure(i) == i

NewWorker == [pc |-> "w144", item |-> 0, banished |-> FALSE]

\* ---- the state when the constructor is entered -----------------------------
\* (an inbox may be supplied to the constructor already holding items)
Init ==
    /\ kind \in Kinds
    /\ wcount \in WCounts
    /\ IF kind = "summoning"
       THEN maxw \in MaxWs /\ rate \in Rates /\ ratio \in Ratios
       ELSE maxw = 0 /\ rate = 0 /\ ratio = 0
    /\ run = FALSE /\ stop = FALSE /\ wstop = FALSE
    /\ nItems \in 0..Min(MaxPre, MaxItems)
    /\ kindOf \in [1..MaxItems -> ItemKinds \cup {"none"}]
    /\ \A i \in 1..MaxItems : (kindOf[i] = "none") <=> (i > nItems)
    /\ inbox = [i \in 1..nItems |-> i]
    /\ unfinished = nItems
    /\ outbox = << >> /\ errbox = << >>
    /\ pool = << >>
    /\ wk = [w \in 1..MaxThreads |-> NewWorker]
    /\ nCreated = 0
    /\ nOps = 0
    /\ cpc = "ctor_summon" /\ ccount = wcount /\ ccn = wcount
    /\ cjoin = FALSE /\ cexile = FALSE /\ ci = 0 /\ cban = << >>
    /\ ppc = "unstarted"
    /\ wpc = "none" /\ wsize = 0 /\ wpsize = 0 /\ wcn = 0 /\ wban = << >> /\ wj = 0
    /\ pool0 = << >>
    /\ exileCalls = 0 /\ exitHow = "none"
    /\ pmark = -1
    /\ heldAtStop = {}

\* ---- Worker.run -----------------------------------------------------------
\* line 144: self._run.wait(); line 145: the stagger sleep changes no state.
\* (A waiter that set() has woken returns from wait() even when the event is
\* cleared again before it runs: the state it then reaches is the one this
\* step reaches when it is taken before the clear.)
WorkerWaitRun(w) ==
    /\ w \in Threads /\ wk[w].pc = "w144"
    /\ run
    /\ wk' = [wk EXCEPT ![w].pc = "w146"]
    /\ UNCHANGED << nOps, params, run, stop, wstop, queues, items, pool, nCreated,
                    cpc, clocals, ppc, wpc, wlocals, hist >>

\* line 146: while not self._stop.is_set()
WorkerCheckStop(w) ==
    /\ w \in Threads /\ wk[w].pc = "w146"
    /\ wk' = [wk EXCEPT ![w].pc = IF stop THEN "dead" ELSE "w147"]
    /\ UNCHANGED << nOps, params, run, stop, wstop, queues, items, pool, nCreated,
                    cpc, clocals, ppc, wpc, wlocals, hist >>

\* lines 147-148: if self._banished.is_set(): return
WorkerCheckBanished(w) ==
    /\ w \in Threads /\ wk[w].pc = "w147"
    /\ wk' = [wk EXCEPT ![w].pc = IF wk[w].banished THEN "dead" ELSE "w149"]
    /\ UNCHANGED << nOps, params, run, stop, wstop, queues, items, pool, nCreated,
                    cpc, clocals, ppc, wpc, wlocals, hist >>

\* lines 149-150: if not self._run.is_set(): self._run.wait()
\* (Event.wait returns at once when the event is set, so the two lines are
\* one wait for the run event)
WorkerCheckRun(w) ==
    /\ w \in Threads /\ wk[w].pc = "w149"
    /\ run
    /\ wk' = [wk EXCEPT ![w].pc = "w155"]
    /\ UNCHANGED << nOps, params, run, stop, wstop, queues, items, pool, nCreated,
                    cpc, clocals, ppc, wpc, wlocals, hist >>

\* line 155: thingie, args, kwargs = self.inbox.get(block=True, timeout=1)
\* a value that is not a triple makes the unpacking raise: the exception is
\* not Queue.Empty, leaves run() and ends the thread (task_done is not called)
WorkerGet(w) ==
    /\ w \in Threads /\ wk[w].pc = "w155"
    /\ inbox # << >>
    /\ LET i == Head(inbox) IN
       wk' = [wk EXCEPT ![w].item = i,
                        ![w].pc = IF kindOf[i] = "bad" THEN "dead" ELSE "w157"]
    /\ inbox' = Tail(inbox)
    /\ UNCHANGED << nOps, params, run, stop, wstop, outbox, errbox, unfinished, items,
                    pool, nCreated, cpc, clocals, ppc, wpc, wlocals, hist >>

\* lines 155, 164-165: the get times out on an empty inbox: except Queue.Empty: pass
WorkerGetTimeout(w) ==
    /\ w \in Threads /\ wk[w].pc = "w155"
    /\ inbox = << >>
    /\ wk' = [wk EXCEPT ![w].pc = "w146"]
    /\ UNCHANGED << nOps, params, run, stop, wstop, queues, items, pool, nCreated,
                    cpc, clocals, ppc, wpc, wlocals, hist >>

\* a Worker that puts every outcome in the outbox (no except clause routing the
\* exception to the errbox)
WorkerExecuteUnrouted(w) ==
    /\ w \in Threads /\ wk[w].pc = "w157"
    /\ outbox' = Append(outbox, Result(wk[w].item))
    /\ errbox' = errbox
    /\ wk' = [wk EXCEPT ![w].pc = "w162"]
    /\ UNCHANGED << nOps, params, run, stop, wstop, inbox, unfinished, items,
                    pool, nCreated, cpc, clocals, ppc, wpc, wlocals, hist >>

\* lines 157-160: result = thingie(*args, **kwargs); self.outbox.put(result)
\*                except Exception, e: self.errbox.put(e)
WorkerExecute(w) ==
    /\ w \in Threads /\ wk[w].pc = "w157"
    /\ LET i == wk[w].item IN
       IF kindOf[i] = "ret"
       THEN outbox' = Append(outbox, Result(i)) /\ errbox' = errbox
       ELSE errbox' = Append(errbox, Failure(i)) /\ outbox' = outbox
    /\ wk' = [wk EXCEPT ![w].pc = "w162"]
    /\ UNCHANGED << nOps, params, run, stop, wstop, inbox, unfinished, items,
                    pool, nCreated, cpc, clocals, ppc, wpc, wlocals, hist >>

\* lines 161-162: finally: self.inbox.task_done()
WorkerTaskDone(w) ==
    /\ w \in Threads /\ wk[w].pc = "w162"
    /\ unfinished' = unfinished - 1
    /\ wk' = [wk EXCEPT ![w].pc = "w146", ![w].item = 0]
    /\ UNCHANGED << nOps, params, run, stop, wstop, inbox, outbox, errbox, items,
                    pool, nCreated, cpc, clocals, ppc, wpc, wlocals, hist >>

WorkerStep(w) ==
    \/ WorkerWaitRun(w)
    \/ WorkerCheckStop(w)
    \/ WorkerCheckBanished(w)
    \/ WorkerCheckRun(w)
    \/ WorkerGet(w)
    \/ WorkerGetTimeout(w)
    \/ WorkerExecute(w)
    \/ WorkerTaskDone(w)

\* ---- the pool's own thread: WorkerPool.run, started by self.start() --------
PoolThreadRun ==
    /\ ppc = "started"
    /\ run' = TRUE
    /\ ppc' = "done"
    /\ UNCHANGED << nOps, params, stop, wstop, queues, items, pool, wk, nCreated,
                    cpc, clocals, wpc, wlocals, hist >>

\* ---- WorkerPool.summon and WorkerPool.banish, one loop iteration each ------
\* lines 217-221: wk = self.workerclass(...); wk.start(); self.pool.append(wk)
SummonOne ==
    /\ nCreated < MaxThreads
    /\ nCreated' = nCreated + 1
    /\ wk' = [wk EXCEPT ![nCreated + 1] = NewWorker]
    /\ pool' = Append(pool, nCreated + 1)

\* lines 232-233: worker = self.pool.pop(); worker.banish()
PopOne ==
    /\ pool # << >>
    /\ pool' = Front(pool)
    /\ wk' = [wk EXCEPT ![Last(pool)].banished = TRUE]

\* a banish that pops count workers whatever the pool holds
BanishRangeUnclamped(count) == count

\* line 231: range(min(count, len(self.pool)))
BanishRange(count) == Min(count, Len(pool))


\* ---- the constructors ------------------------------------------------------
\* line 195: self.summon(wcount, stagger=stagger), one worker per step
CtorSummon ==
    /\ cpc = "ctor_summon" /\ ccn > 0
    /\ SummonOne
    /\ ccn' = ccn - 1
    /\ UNCHANGED << nOps, params, run, stop, wstop, queues, items, cpc, ccount, cjoin,
                    cexile, ci, cban, ppc, wpc, wlocals, hist >>

\* line 196: self.start()
CtorStart ==
    /\ cpc = "ctor_summon" /\ ccn = 0
    /\ ppc' = "started"
    /\ cpc' = IF kind = "summoning" THEN "ctor_watch" ELSE "ctor_ret"
    /\ ccount' = 0
    /\ UNCHANGED << nOps, params, run, stop, wstop, queues, items, pool, wk, nCreated,
                    ccn, cjoin, cexile, ci, cban, wpc, wlocals, hist >>

\* lines 342-343: self.watcher = Watchman(...); self.watcher.start()
CtorWatch ==
    /\ cpc = "ctor_watch"
    /\ wpc' = "w300"
    /\ cpc' = "ctor_ret"
    /\ UNCHANGED << nOps, params, run, stop, wstop, queues, items, pool, wk, nCreated,
                    clocals, ppc, wlocals, hist >>

\* the constructor returns; lines 368-369, 379-380: yield pool
CtorReturn ==
    /\ cpc = "ctor_ret"
    /\ cpc' = "body"
    /\ UNCHANGED << nOps, params, run, stop, wstop, queues, items, pool, wk, nCreated,
                    clocals, ppc, wpc, wlocals, hist >>

\* ---- what the caller does with the pool ------------------------------------
\* pool.inbox.put(item): Queue.put appends and counts the item as unfinished
Put(k) ==
    /\ cpc = "body" /\ nOps < MaxOps /\ nOps' = nOps + 1 /\ nItems < MaxItems
    /\ nItems' = nItems + 1
    /\ kindOf' = [kindOf EXCEPT ![nItems + 1] = k]
    /\ inbox' = Append(inbox, nItems + 1)
    /\ unfinished' = unfinished + 1
    /\ UNCHANGED << params, run, stop, wstop, outbox, errbox, pool, wk, nCreated,
                    cpc, clocals, ppc, wpc, wlocals, hist >>

\* line 203: pool.summon(count)
CallSummon(c) ==
    /\ cpc = "body" /\ nOps < MaxOps /\ nOps' = nOps + 1 /\ nCreated + c <= MaxThreads
    /\ cpc' = "summon" /\ ccount' = c /\ ccn' = c
    /\ UNCHANGED << params, run, stop, wstop, queues, items, pool, wk, nCreated,
                    cjoin, cexile, ci, cban, ppc, wpc, wlocals, hist >>

\* lines 215-221, and the return after the last iteration
SummonStep ==
    /\ cpc = "summon" /\ ccn > 0
    /\ SummonOne
    /\ ccn' = ccn - 1
    /\ cpc' = IF ccn = 1 THEN "body" ELSE "summon"
    /\ ccount' = IF ccn = 1 THEN 0 ELSE ccount
    /\ UNCHANGED << nOps, params, run, stop, wstop, queues, items, cjoin, cexile, ci,
                    cban, ppc, wpc, wlocals, hist >>

\* lines 230-231: banished = []; range(min(count, len(self.pool)))
CallBanish(c) ==
    /\ cpc = "body" /\ nOps < MaxOps /\ nOps' = nOps + 1
    /\ ccount' = c /\ ccn' = BanishRange(c)
    /\ cban' = << >> /\ ci' = 0
    /\ cpc' = IF BanishRange(c) = 0 THEN "banish_join" ELSE "banish_pop"
    /\ pool0' = pool
    /\ UNCHANGED << params, run, stop, wstop, queues, items, pool, wk, nCreated,
                    cjoin, cexile, ppc, wpc, wlocals, exileCalls, exitHow, pmark, heldAtStop >>

\* lines 232-234: pop, banish, banished.append(worker)
BanishPop ==
    /\ cpc = "banish_pop" /\ ccn > 0
    /\ PopOne
    /\ cban' = Append(cban, Last(pool))
    /\ ccn' = ccn - 1
    /\ cpc' = IF ccn = 1 THEN "banish_join" ELSE "banish_pop"
    /\ UNCHANGED << nOps, params, run, stop, wstop, queues, items, nCreated, ccount,
                    cjoin, cexile, ci, ppc, wpc, wlocals, hist >>

\* line 232 on a list another thread emptied: IndexError leaves banish, and
\* the with-block with it (see ExitScope)
BanishPopEmpty ==
    /\ cpc = "banish_pop" /\ ccn > 0
    /\ pool = << >>
    /\ cpc' = "exited" /\ exitHow' = "raise"
    /\ UNCHANGED << nOps, params, run, stop, wstop, queues, items, pool, wk, nCreated,
                    clocals, ppc, wpc, wlocals, pool0, exileCalls, pmark, heldAtStop >>

\* lines 236-237: for worker in banished: worker.join()
BanishJoin ==
    /\ cpc = "banish_join" /\ ci < Len(cban)
    /\ wk[cban[ci + 1]].pc = "dead"
    /\ ci' = ci + 1
    /\ UNCHANGED << nOps, params, run, stop, wstop, queues, items, pool, wk, nCreated,
                    cpc, ccount, ccn, cjoin, cexile, cban, ppc, wpc, wlocals, hist >>

BanishReturn ==
    /\ cpc = "banish_join" /\ ci = Len(cban)
    /\ cpc' = "body"
    /\ ccount' = 0 /\ ci' = 0 /\ cban' = << >>
    /\ pool0' = << >>
    /\ UNCHANGED << nOps, params, run, stop, wstop, queues, items, pool, wk, nCreated,
                    ccn, cjoin, cexile, ppc, wpc, wlocals, exileCalls, exitHow,
                    pmark, heldAtStop >>

\* lines 244-247: pause
Pause ==
    /\ cpc = "body" /\ nOps < MaxOps /\ nOps' = nOps + 1
    /\ run' = FALSE
    /\ pmark' = nItems
    /\ UNCHANGED << params, stop, wstop, queues, items, pool, wk, nCreated,
                    cpc, clocals, ppc, wpc, wlocals, pool0, exileCalls,
                    exitHow, heldAtStop >>

\* lines 239-242: run, called by the caller to resume
Resume ==
    /\ cpc = "body" /\ nOps < MaxOps /\ nOps' = nOps + 1
    /\ run' = TRUE
    /\ pmark' = -1
    /\ UNCHANGED << params, stop, wstop, queues, items, pool, wk, nCreated,
                    cpc, clocals, ppc, wpc, wlocals, pool0, exileCalls,
                    exitHow, heldAtStop >>

\* ---- WorkerPool.stop / SummoningPool.stop, WorkerPool.exile ----------------
\* where stop(join) begins: line 354 for a SummoningPool, line 258 otherwise
StopEntry(join) ==
    IF kind = "summoning" THEN "stop_watcher"
    ELSE IF join THEN "stop_qjoin" ELSE "stop_set"

\* lines 249, 345: pool.stop(join)
CallStop(j) ==
    /\ cpc = "body" /\ nOps < MaxOps /\ nOps' = nOps + 1
    /\ cjoin' = j /\ cexile' = FALSE
    /\ cpc' = StopEntry(j)
    /\ UNCHANGED << params, run, stop, wstop, queues, items, pool, wk, nCreated,
                    ccount, ccn, ci, cban, ppc, wpc, wlocals, hist >>

\* line 354: self.watcher.stop.set()
StopWatcher ==
    /\ cpc = "stop_watcher"
    /\ wstop' = TRUE
    /\ cpc' = IF cjoin THEN "stop_qjoin" ELSE "stop_set"
    /\ UNCHANGED << nOps, params, run, stop, queues, items, pool, wk, nCreated,
                    clocals, ppc, wpc, wlocals, hist >>

\* a stop that does not wait for the inbox before it sets the stop event
StopQueueJoinNoWait ==
    /\ cpc = "stop_qjoin"
    /\ cpc' = "stop_set"
    /\ UNCHANGED << nOps, params, run, stop, wstop, queues, items, pool, wk, nCreated,
                    clocals, ppc, wpc, wlocals, hist >>

\* lines 258-259, 355-356: if join: self.inbox.join()
StopQueueJoin ==
    /\ cpc = "stop_qjoin"
    /\ unfinished = 0
    /\ cpc' = "stop_set"
    /\ UNCHANGED << nOps, params, run, stop, wstop, queues, items, pool, wk, nCreated,
                    clocals, ppc, wpc, wlocals, hist >>

\* lines 260, 357: self._stop.set()
StopSet ==
    /\ cpc = "stop_set"
    /\ stop' = TRUE
    /\ ci' = 0
    /\ cpc' = "stop_wjoin"
    /\ heldAtStop' = {wk[w].item : w \in {x \in Threads : wk[x].pc \in {"w157", "w162"}}}
    /\ UNCHANGED << nOps, params, run, wstop, queues, items, pool, wk, nCreated,
                    ccount, ccn, cjoin, cexile, cban, ppc, wpc, wlocals,
                    pool0, exileCalls, exitHow, pmark >>

\* a stop that goes through the pool without joining its workers
StopJoinWorkerNoWait ==
    /\ cpc = "stop_wjoin" /\ ci < Len(pool)
    /\ ci' = ci + 1
    /\ UNCHANGED << nOps, params, run, stop, wstop, queues, items, pool, wk, nCreated,
                    cpc, ccount, ccn, cjoin, cexile, cban, ppc, wpc, wlocals, hist >>

\* lines 261-262, 358-359: for worker in self.pool: worker.join()
\* (the list iterator reads self.pool[ci] as long as ci < len(self.pool))
StopJoinWorker ==
    /\ cpc = "stop_wjoin" /\ ci < Len(pool)
    /\ wk[pool[ci + 1]].pc = "dead"
    /\ ci' = ci + 1
    /\ UNCHANGED << nOps, params, run, stop, wstop, queues, items, pool, wk, nCreated,
                    cpc, ccount, ccn, cjoin, cexile, cban, ppc, wpc, wlocals, hist >>

\* stop returns: to the caller, or to exile (line 269)
StopReturn ==
    /\ cpc = "stop_wjoin" /\ ci >= Len(pool)
    /\ cpc' = IF cexile THEN "exile_join" ELSE "body"
    /\ ci' = 0 /\ cjoin' = FALSE
    /\ UNCHANGED << nOps, params, run, stop, wstop, queues, items, pool, wk, nCreated,
                    ccount, ccn, cexile, cban, ppc, wpc, wlocals, hist >>

\* line 269: self.join(), the pool's own thread; then exile and the context
\* manager's exit return
ExileJoin ==
    /\ cpc = "exile_join"
    /\ ppc = "done"
    /\ cpc' = "exited"
    /\ cexile' = FALSE
    /\ UNCHANGED << nOps, params, run, stop, wstop, queues, items, pool, wk, nCreated,
                    ccount, ccn, cjoin, ci, cban, ppc, wpc, wlocals, hist >>

\* ---- pool / summoning_pool: leaving the with-block --------------------------
\* lines 369-370, 380-381: the generator is resumed after its yield only when the
\* block ends without an exception (falling off its end, or by a return); an
\* exception is thrown into the generator at the yield, which has no try/finally,
\* so pool.exile() is not reached
ExitScope(how) ==
    /\ cpc = "body"
    /\ exitHow' = how
    /\ IF how = "raise"
       THEN /\ cpc' = "exited"
            /\ UNCHANGED << cjoin, cexile, exileCalls >>
       ELSE /\ exileCalls' = exileCalls + 1
            /\ cexile' = TRUE /\ cjoin' = TRUE
            /\ cpc' = StopEntry(TRUE)
    /\ UNCHANGED << nOps, params, run, stop, wstop, queues, items, pool, wk, nCreated,
                    ccount, ccn, ci, cban, ppc, wpc, wlocals, pool0, pmark, heldAtStop >>

\* ---- Watchman.run ----------------------------------------------------------
\* line 300: while not self.stop.is_set()
WatchLoop ==
    /\ wpc = "w300"
    /\ wpc' = IF wstop THEN "dead" ELSE "w301"
    /\ UNCHANGED << nOps, params, run, stop, wstop, queues, items, pool, wk, nCreated,
                    cpc, clocals, ppc, wlocals, hist >>

\* line 301: size = self.pool.inbox.qsize()
WatchQsize ==
    /\ wpc = "w301"
    /\ wsize' = Len(inbox)
    /\ wpc' = "w302"
    /\ UNCHANGED << nOps, params, run, stop, wstop, queues, items, pool, wk, nCreated,
                    cpc, clocals, ppc, wpsize, wcn, wban, wj, hist >>

\* line 302: psize = self.pool.poolsize()
WatchPsize ==
    /\ wpc = "w302"
    /\ wpsize' = Len(pool)
    /\ wpc' = "w303"
    /\ UNCHANGED << nOps, params, run, stop, wstop, queues, items, pool, wk, nCreated,
                    cpc, clocals, ppc, wsize, wcn, wban, wj, hist >>

\* a Watchman that summons rate workers whatever room maxw leaves
SpawnUnclamped(psize) == rate

\* line 306: spawn = min([self.rate, (self.maxw - psize)])
Spawn(psize) == Min(rate, maxw - psize)

\* a Watchman that shrinks an idle pool that is at its initial worker count
AboveInitialOrAt(psize) == psize >= wcount

\* line 311: if psize > self.wcount
AboveInitial(psize) == psize > wcount

\* lines 303-312: the decision of a tick.  Line 304 reads poolsize() again:
\* size / 0 raises ZeroDivisionError, which ends the Watchman thread.
\* The sleep of line 313 changes no state: a tick that does nothing is back
\* at line 300.
WatchDecide ==
    /\ wpc = "w303"
    /\ IF wsize > 0 /\ wpsize > 0
       THEN IF Len(pool) = 0
            THEN wpc' = "crashed" /\ wcn' = wcn
            ELSE LET current == wsize \div Len(pool) IN
                 IF current > ratio /\ wpsize < maxw
                 THEN wpc' = "w307" /\ wcn' = Spawn(wpsize)
                 ELSE IF current < ratio
                      THEN wpc' = "w309" /\ wcn' = rate
                      ELSE wpc' = "w300" /\ wcn' = wcn
       ELSE IF AboveInitial(wpsize)
            THEN wpc' = "w309" /\ wcn' = rate
            ELSE wpc' = "w300" /\ wcn' = wcn
    /\ wsize' = IF wpc' = "w300" THEN 0 ELSE wsize
    /\ wpsize' = IF wpc' = "w300" THEN 0 ELSE wpsize
    /\ UNCHANGED << nOps, params, run, stop, wstop, queues, items, pool, wk, nCreated,
                    cpc, clocals, ppc, wban, wj, hist >>

\* line 307: self.pool.summon(spawn), one worker per step
WatchSummon ==
    /\ wpc = "w307" /\ wcn > 0
    /\ SummonOne
    /\ wcn' = wcn - 1
    /\ wpc' = IF wcn = 1 THEN "w300" ELSE "w307"
    /\ wsize' = IF wcn = 1 THEN 0 ELSE wsize
    /\ wpsize' = IF wcn = 1 THEN 0 ELSE wpsize
    /\ UNCHANGED << nOps, params, run, stop, wstop, queues, items, cpc, clocals, ppc,
                    wban, wj, pool0, exileCalls, exitHow, pmark, heldAtStop >>

\* lines 309, 312: self.pool.banish(self.rate); lines 230-231 of banish
WatchBanishCall ==
    /\ wpc = "w309"
    /\ wcn' = BanishRange(wcn)
    /\ wban' = << >> /\ wj' = 0
    /\ wpc' = IF BanishRange(wcn) = 0 THEN "w237" ELSE "w232"
    /\ UNCHANGED << nOps, params, run, stop, wstop, queues, items, pool, wk, nCreated,
                    cpc, clocals, ppc, wsize, wpsize, hist >>

\* lines 232-234 in the Watchman's thread
WatchBanishPop ==
    /\ wpc = "w232" /\ wcn > 0
    /\ PopOne
    /\ wban' = Append(wban, Last(pool))
    /\ wcn' = wcn - 1
    /\ wpc' = IF wcn = 1 THEN "w237" ELSE "w232"
    /\ UNCHANGED << nOps, params, run, stop, wstop, queues, items, nCreated, cpc,
                    clocals, ppc, wsize, wpsize, wj, hist >>

\* line 232 on a list the caller emptied: IndexError ends the Watchman thread
WatchBanishPopEmpty ==
    /\ wpc = "w232" /\ wcn > 0
    /\ pool = << >>
    /\ wpc' = "crashed"
    /\ UNCHANGED << nOps, params, run, stop, wstop, queues, items, pool, wk, nCreated,
                    cpc, clocals, ppc, wlocals, hist >>

\* lines 236-237 in the Watchman's thread
WatchBanishJoin ==
    /\ wpc = "w237" /\ wj < Len(wban)
    /\ wk[wban[wj + 1]].pc = "dead"
    /\ wj' = wj + 1
    /\ UNCHANGED << nOps, params, run, stop, wstop, queues, items, pool, wk, nCreated,
                    cpc, clocals, ppc, wpc, wsize, wpsize, wcn, wban, hist >>

\* banish returns; line 313: time.sleep(self.interval)
WatchBanishReturn ==
    /\ wpc = "w237" /\ wj = Len(wban)
    /\ wpc' = "w300"
    /\ wsize' = 0 /\ wpsize' = 0 /\ wcn' = 0 /\ wban' = << >> /\ wj' = 0
    /\ UNCHANGED << nOps, params, run, stop, wstop, queues, items, pool, wk, nCreated,
                    cpc, clocals, ppc, hist >>

\* ---- the systems -----------------------------------------------------------
\* what the caller does to every pool: construct it, put work, stop it, leave
\* the with-block
CallerCommon ==
    \/ CtorSummon \/ CtorStart \/ CtorReturn
    \/ \E k \in ItemKinds : Put(k)
    \/ \E j \in BOOLEAN : CallStop(j)
    \/ StopQueueJoin \/ StopSet \/ StopJoinWorker \/ StopReturn
    \/ ExileJoin
    \/ \E how \in ExitHows : ExitScope(how)

\* the caller resizes and pauses the pool
CallerResize ==
    \/ \E c \in 1..MaxCount : CallSummon(c)
    \/ SummonStep
    \/ \E c \in 0..MaxCount : CallBanish(c)
    \/ BanishPop \/ BanishJoin \/ BanishReturn

CallerPause == Pause \/ Resume

\* the Watchman thread, the only one to resize the pool
Watchman ==
    \/ WatchLoop \/ WatchQsize \/ WatchPsize \/ WatchDecide
    \/ WatchSummon
    \/ WatchBanishCall \/ WatchBanishPop
    \/ WatchBanishJoin \/ WatchBanishReturn

Workers == \E w \in 1..MaxThreads : WorkerStep(w)

\* a WorkerPool: no Watchman; the caller is the one thread that calls its methods
InitPool == Init /\ kind = "plain"
NextPool == CallerCommon \/ CallerResize \/ CallerPause \/ PoolThreadRun \/ Workers
SpecPool == InitPool /\ [][NextPool]_vars

\* the same WorkerPool under a fair scheduler: a thread that can take a step
\* takes it (the caller is free never to call the pool again; once inside a
\* call it goes on); one worker, and nothing in the inbox at construction
CallerInCall ==
    \/ CtorSummon \/ CtorStart \/ CtorReturn
    \/ SummonStep
    \/ BanishPop \/ BanishJoin \/ BanishReturn
    \/ StopQueueJoin \/ StopSet \/ StopJoinWorker \/ StopReturn
    \/ ExileJoin
InitFairPool == InitPool /\ wcount = 1 /\ nItems = 0
FairPool ==
    /\ InitFairPool /\ [][NextPool]_vars
    /\ WF_vars(CallerInCall)
    /\ WF_vars(PoolThreadRun)
    /\ \A w \in 1..MaxThreads : WF_vars(WorkerStep(w))

\* a SummoningPool whose worker set is changed only by its Watchman
InitSummoning == Init /\ kind = "summoning"
NextSummoning ==
    CallerCommon \/ CtorWatch \/ StopWatcher \/ PoolThreadRun \/ Watchman \/ Workers
SpecSummoning == InitSummoning /\ [][NextSummoning]_vars

\* the constructors of both pools, up to their return
NextConstruct ==
    \/ CtorSummon \/ CtorStart \/ CtorWatch \/ CtorReturn
    \/ PoolThreadRun \/ Watchman \/ Workers
SpecConstruct == Init /\ [][NextConstruct]_vars


\* ---- what has become of an item --------------------------------------------
Submitted(i) == i \in 1..nItems
InInbox(i) == i \in Range(inbox)
Holders(i) == {w \in Threads : wk[w].item = i}
\* dequeued and marked done by task_done
Done(i) == Submitted(i) /\ ~InInbox(i) /\ Holders(i) = {}
\* its operation has been called and its outcome routed
Executed(i) == Done(i) \/ \E w \in Holders(i) : wk[w].pc = "w162"
WellFormed(i) == kindOf[i] \in {"ret", "raise"}
Entries(i) == Count(outbox, Result(i)) + Count(errbox, Failure(i))
Dead(w) == wk[w].pc = "dead"

\* the caller's stop has joined every worker of the pool and is about to return
StopReturning == cpc = "stop_wjoin" /\ ci >= Len(pool)
\* the caller's banish has joined every worker it removed and is about to return
BanishReturning == cpc = "banish_join" /\ ci = Len(cban)

\* ---- C1 --------------------------------------------------------------------
\* C1: an item is in one place at a time (queued, or in the hands of one
\* worker, or done); an item whose operation returns has its result in the
\* outbox exactly once from the moment it is executed, and nothing in the
\* errbox; an item whose operation raises has its exception in the errbox
\* exactly once from the moment it is executed, and nothing in the outbox.
C1_OneEntryPerItem ==
    \A i \in 1..nItems :
        /\ Count(inbox, i) + Cardinality(Holders(i)) <= 1
        /\ kindOf[i] = "ret" =>
              /\ Count(errbox, Failure(i)) = 0
              /\ Count(outbox, Result(i)) = IF Executed(i) THEN 1 ELSE 0
        /\ kindOf[i] = "raise" =>
              /\ Count(outbox, Result(i)) = 0
              /\ Count(errbox, Failure(i)) = IF Executed(i) THEN 1 ELSE 0

\* two workers have processed one returning and one raising item
C1_Witness ==
    /\ nItems = 2 /\ unfinished = 0
    /\ Len(outbox) = 1 /\ Len(errbox) = 1
    /\ Len(pool) >= 2

\* ---- C2 --------------------------------------------------------------------
\* C2: in stop(join=True) the stop event is set only when the inbox has no
\* pending item, and when stop returns every worker of the pool has terminated
\* and every item put has been dequeued, executed and marked done, with its one
\* entry in the outbox or the errbox.
C2_StopJoinDrains ==
    /\ (cpc \in {"stop_set", "stop_wjoin"} /\ cjoin) => unfinished = 0
    /\ (StopReturning /\ cjoin) =>
          /\ \A w \in Range(pool) : Dead(w)
          /\ \A i \in 1..nItems : Done(i) /\ WellFormed(i) /\ Entries(i) = 1

\* stop(join=True) returns on a pool of two workers that was given two items
C2_Witness ==
    /\ StopReturning /\ cjoin
    /\ Len(pool) = 2 /\ nItems = 2

\* ---- C3 --------------------------------------------------------------------
\* C3: no worker terminates with a well-formed item in its hands; when
\* stop(join=False) returns every worker of the pool has terminated, every item
\* that was in a worker's hands when the stop event was set is done with its
\* one entry, and every other well-formed item is either still in the inbox
\* with no entry or done with its one entry.
C3_StopNoJoin ==
    /\ \A w \in Threads : (Dead(w) /\ wk[w].item # 0) => ~WellFormed(wk[w].item)
    /\ (StopReturning /\ ~cjoin) =>
          /\ \A w \in Range(pool) : Dead(w)
          /\ \A i \in heldAtStop : Done(i) /\ Entries(i) = 1
          /\ \A i \in 1..nItems :
                WellFormed(i) =>
                   \/ InInbox(i) /\ Entries(i) = 0
                   \/ Done(i) /\ Entries(i) = 1

\* stop(join=False) returns: one item was in a worker's hands when the stop
\* event was set, another is left in the inbox
C3_Witness ==
    /\ StopReturning /\ ~cjoin
    /\ heldAtStop # {}
    /\ \E i \in 1..nItems : InInbox(i)

\* ---- C4 --------------------------------------------------------------------
\* C4: whenever the with-block has been left, exile has been called exactly once.
C4_ExileOnEveryExit == cpc = "exited" => exileCalls = 1

\* ---- C5 --------------------------------------------------------------------
\* C5: once the exile called by the context manager has returned, every worker
\* ever summoned, the Watchman and the pool's own thread have terminated.
C5_NoThreadOutlivesExile ==
    (cpc = "exited" /\ exileCalls = 1) =>
        /\ \A w \in Threads : Dead(w)
        /\ wpc \in {"none", "dead", "crashed"}
        /\ ppc = "done"

\* ---- C6 --------------------------------------------------------------------
\* C6: while the pool is paused (pause has returned, run has not been called
\* since), every item put since the pause is still in the inbox.
C6_PausedItemsStayQueued ==
    pmark >= 0 => \A i \in (pmark + 1)..nItems : InInbox(i)

\* ---- C7 --------------------------------------------------------------------
\* C7: banish never pops from an empty pool; when banish(count) returns on a
\* pool that held n workers it has removed min(count, n) of them, the last
\* added first, the pool is what is left of it (max(0, n - count) workers),
\* the removed workers and no other worker of the pool have their banish event
\* set, and every removed worker has terminated.
C7_Banish ==
    /\ cpc = "banish_pop" => ccn <= Len(pool)
    /\ BanishReturning =>
          /\ Len(cban) = Min(ccount, Len(pool0))
          /\ Len(pool) = Max(0, Len(pool0) - ccount)
          /\ pool = SubSeq(pool0, 1, Len(pool))
          /\ \A k \in 1..Len(cban) : cban[k] = pool0[Len(pool0) - k + 1]
          /\ \A w \in Range(pool0) : wk[w].banished <=> w \in Range(cban)
          /\ \A w \in Range(cban) : Dead(w)

\* banish(2) returns on a pool of one worker
C7_Witness ==
    /\ BanishReturning
    /\ ccount = 2 /\ Len(pool0) = 1 /\ pool = << >>

\* ---- C8 --------------------------------------------------------------------
\* C8: a worker whose banish event is set eventually terminates.
C8_BanishedWorkerTerminates ==
    \A w \in 1..MaxThreads : wk[w].banished ~> Dead(w)

\* ---- C9 --------------------------------------------------------------------
\* C9 as stated: when the constructor returns, poolsize() is the worker count
\* it was given.
C9_SizeAtReturn == cpc = "ctor_ret" => Len(pool) = wcount

\* C9 as amended: when the constructor returns, poolsize() is the worker count
\* it was given, for a WorkerPool whatever its inbox holds and for a
\* SummoningPool whose inbox is empty.
C9_SizeAtReturnAmended ==
    (cpc = "ctor_ret" /\ (kind = "plain" \/ nItems = 0)) => Len(pool) = wcount

\* the constructor of a SummoningPool of two workers, given an empty inbox,
\* returns while the Watchman is inside its first tick
C9_Witness ==
    /\ cpc = "ctor_ret" /\ kind = "summoning" /\ nItems = 0
    /\ wcount = 2 /\ wpc = "w303"

\* ---- C10 -------------------------------------------------------------------
\* C10: in a SummoningPool constructed with at most maxw workers and resized
\* only by its Watchman, poolsize() never exceeds maxw, and a summoning tick
\* that found psize workers ends with psize + min(rate, maxw - psize).
C10_NeverAboveMax ==
    wcount <= maxw =>
        /\ Len(pool) <= maxw
        /\ wpc = "w307" => Len(pool) + wcn = wpsize + Min(rate, maxw - wpsize)

\* a tick with rate 2 added the one worker that maxw - psize allowed
C10_Witness ==
    /\ wcount = 1 /\ rate = 2 /\ maxw = 2
    /\ Len(pool) = 2 /\ nCreated = 2 /\ wpc = "w300"

\* ---- C11 -------------------------------------------------------------------
\* a SummoningPool under a fair scheduler: every thread that can take a step
\* takes it, every operation returns; the caller constructs the pool and is
\* then free to put work, pause and resume
InitFairWatch == InitSummoning /\ wcount \in {1, 2} /\ nItems = 0
NextFairWatch ==
    \/ CtorSummon \/ CtorStart \/ CtorWatch \/ CtorReturn
    \/ \E k \in ItemKinds : Put(k)
    \/ CallerPause
    \/ PoolThreadRun \/ Watchman \/ Workers
FairWatch ==
    /\ InitFairWatch /\ [][NextFairWatch]_vars
    /\ WF_vars(CtorSummon \/ CtorStart \/ CtorWatch \/ CtorReturn)
    /\ WF_vars(PoolThreadRun)
    /\ WF_vars(Watchman)
    /\ \A w \in 1..MaxThreads : WF_vars(WorkerStep(w))

\* lines 303-305 on the pool as it is: backlog / workers exceeds ratio and
\* the pool has room to grow
HighPressure ==
    /\ Len(inbox) > 0 /\ Len(pool) > 0
    /\ Len(inbox) \div Len(pool) > ratio
    /\ Len(pool) < maxw

\* C11: the backlog does not stay for ever above ratio per worker with the pool
\* below maxw: the Watchman adds workers until poolsize() is maxw (or the
\* backlog has gone down).
C11_WatchmanGrows == HighPressure ~> ~HighPressure

\* ---- C12 -------------------------------------------------------------------
\* a SummoningPool that its caller resizes too: summon and banish run in the
\* caller's thread while the Watchman ticks in its own; the inbox supplied to
\* the constructor holds items whose operations return, the caller makes at
\* most MaxRaceOps calls
InitRace ==
    /\ InitSummoning /\ wcount \in {1, 2} /\ rate = 1
    /\ \A i \in 1..MaxItems : kindOf[i] \in {"ret", "none"}
NextRace ==
    \/ CtorSummon \/ CtorStart \/ CtorWatch \/ CtorReturn
    \/ (nOps < MaxRaceOps /\ \E c \in 1..MaxCount : CallSummon(c))
    \/ SummonStep
    \/ (nOps < MaxRaceOps /\ \E c \in 0..MaxCount : CallBanish(c))
    \/ BanishPop \/ BanishPopEmpty \/ BanishJoin \/ BanishReturn
    \/ PoolThreadRun
    \/ Watchman \/ WatchBanishPopEmpty
    \/ Workers
SpecRace == InitRace /\ [][NextRace]_vars

\* the step on which the caller's summon returns
SummonReturns == SummonStep /\ cpc' = "body"

\* C12: when summon(count), called by the caller on a SummoningPool, returns,
\* poolsize() is at most maxw.
C12_SummonClamped == [][SummonReturns => Len(pool') <= maxw]_vars

\* ---- C13 -------------------------------------------------------------------
\* the caller is inside stop
InStop == cpc \in {"stop_watcher", "stop_qjoin", "stop_set", "stop_wjoin"}
\* the caller has entered stop and finds the stop event set: an earlier stop
\* has set it and has returned (the caller's calls follow one another)
InSecondStop == cpc \in {"stop_watcher", "stop_qjoin", "stop_set"} /\ stop
\* a step of stop itself
StopStep == StopWatcher \/ StopQueueJoin \/ StopSet \/ StopJoinWorker \/ StopReturn

\* C13: a stop called when an earlier stop has returned changes none of the
\* events, the pool list and the three queues, and returns.
C13_StopIdempotent ==
    /\ [][(stop /\ StopStep) =>
             UNCHANGED << run, stop, wstop, pool, inbox, outbox, errbox, unfinished >>]_vars
    /\ InSecondStop ~> ~InStop

\* ---- C14 -------------------------------------------------------------------
\* the items not yet marked done that are still to be: those queued and those
\* in the hands of a worker that is running
Pending == {i \in 1..nItems : InInbox(i) \/ \E w \in Holders(i) : ~Dead(w)}

\* C14: the inbox's count of unfinished tasks is never negative and is the
\* number of items queued or in the hands of a running worker: an item that a
\* worker has dequeued is marked done once, whatever the item is.
C14_TaskDoneOnce == unfinished >= 0 /\ unfinished = Cardinality(Pending)

\* ---- C15 -------------------------------------------------------------------
\* C15: the Watchman's thread ends only by reading its stop event at line 300:
\* it has not ended through an exception, and when it has ended the stop event
\* is set.
C15_WatchmanStopsOnlyOnSignal == wpc # "crashed" /\ (wpc = "dead" => wstop)

\* ---- C16 -------------------------------------------------------------------
\* C16: whenever no call on the pool is in progress, every worker in
\* self.pool is a running thread, so poolsize() counts running workers only.
C16_PoolHoldsLiveWorkers ==
    cpc \in {"body", "exited"} => \A w \in Range(pool) : ~Dead(w)

\* ---- C17 -------------------------------------------------------------------
\* the workers that a banish has removed from the pool and signalled
Removed == {w \in Threads : wk[w].banished}

\* C17: no banish, the caller's or the Watchman's, is about to pop from an
\* empty pool; no worker is in the hands of both banish calls; the pool holds
\* each worker summoned and not removed once, so that poolsize() is the number
\* of workers summoned minus the number removed.
C17_ResizeSerialized ==
    /\ ~(cpc = "banish_pop" /\ pool = << >>)
    /\ ~(wpc = "w232" /\ pool = << >>)
    /\ Range(cban) \cap Range(wban) = {}
    /\ Range(pool) = Threads \ Removed
    /\ Len(pool) = nCreated - Cardinality(Removed)

\* ---- C18 -------------------------------------------------------------------
\* what a tick is to do with a backlog and a number of workers
TickAction(backlog, workers) ==
    IF backlog > 0 /\ workers > 0
    THEN LET pressure == backlog \div workers IN
         IF pressure > ratio /\ workers < maxw
         THEN << "summon", Min(rate, maxw - workers) >>
         ELSE IF pressure < ratio
              THEN << "banish", rate >>
              ELSE << "nothing", 0 >>
    ELSE IF workers > wcount
         THEN << "banish", rate >>
         ELSE << "nothing", 0 >>

\* what the step of lines 303-312 has decided: the call it goes on to make
TickOutcome ==
    IF wpc' = "w307" THEN << "summon", wcn' >>
    ELSE IF wpc' = "w309" THEN << "banish", wcn' >>
    ELSE IF wpc' = "w300" THEN << "nothing", 0 >>
    ELSE << "failure", 0 >>

\* C18: the decision of a tick that read backlog = qsize() at line 301 is the
\* one of the table for this backlog and a number of workers that poolsize()
\* gave the tick (at line 302, or at line 304 when it is read again).
C18_TickTable ==
    [][WatchDecide =>
          \/ TickOutcome = TickAction(wsize, wpsize)
          \/ TickOutcome = TickAction(wsize, Len(pool))]_vars

\* ---- C19 -------------------------------------------------------------------
\* C19: once the constructor of a SummoningPool of wcount >= 1 workers has
\* summoned them, poolsize() is never below wcount (so the pool is never
\* empty, whatever is queued in the inbox).
C19_NeverBelowBaseline ==
    (wcount >= 1 /\ cpc # "ctor_summon") => Len(pool) >= wcount

\* ---- C20 -------------------------------------------------------------------
\* C20: a stop(join=False) that is about to set the stop event eventually has
\* joined every worker of the pool, all terminated, and returns.
C20_StopNoJoinReturns ==
    (cpc = "stop_set" /\ ~cjoin) ~>
        (StopReturning /\ ~cjoin /\ \A w \in Range(pool) : Dead(w))

====
